---- MODULE Spec2Model ----
(***************************************************************************)
(* Event-window video extraction engine of the soccer preprocessing        *)
(* scripts: soccerProjNewCode-1.py (batch orchestrator, flat layout) and   *)
(* the single-video variants under preprocess/.                            *)
(*                                                                         *)
(* Strings are sequences of one-character strings, so that parsing is a    *)
(* computation over characters.  Seconds are exact rationals num/den; the  *)
(* frame rate is fpsQ/4 frames per second, so that round() meets ties.     *)
(***************************************************************************)
EXTENDS Integers, Sequences, FiniteSets, TLC

VARIABLES
    nMatches,        \* len(match_folders)
    mi,              \* index of the match folder the main loop is at
    pc,              \* position of the single thread of control
    attempted,       \* match indices process_match was invoked on
    invalid,         \* match indices whose folder lacks a JSON or a half video
    raised,          \* match indices whose exception was caught in __main__
    dirs,            \* match indices whose output directories were created
    halfStarted,     \* match indices process_half was invoked for
    openCaps,        \* <<match, half>> video sources opened and not released
    ts_half1_unique, \* process_match local
    ts_half2_unique, \* process_match local
    curHalf,         \* which process_half call is running (0: none)
    halfList,        \* process_half argument `timestamps`
    halfStatus,      \* how the current process_half call stands
    cap,             \* the cv2.VideoCapture of the running process_half
    ts_sorted,       \* process_half local
    ei,              \* position of the for loop over ts_sorted
    job,             \* locals of the running write_clip_and_frames call
    jobs,            \* outcome of every event of the current half, in order
    fstage,          \* stage of a pure-function run
    fin,             \* input of a pure-function run
    fout             \* output of a pure-function run

vars == <<nMatches, mi, pc, attempted, invalid, raised, dirs, halfStarted,
          openCaps, ts_half1_unique, ts_half2_unique, curHalf,
          halfList, halfStatus, cap, ts_sorted, ei, job, jobs,
          fstage, fin, fout>>

batchVars == <<nMatches, mi, pc, attempted, invalid, raised, dirs, halfStarted,
               openCaps, ts_half1_unique, ts_half2_unique, curHalf,
               halfList, halfStatus, cap, ts_sorted, ei, job, jobs>>

funVars == <<fstage, fin, fout>>

-----------------------------------------------------------------------------
(* Bounds *)

MaxMatches == 2
MaxComments == 2
MaxTsLen == 5
MaxRecords == 3
MaxCenter == 50
MaxFrames == 12
MaxFpsQ == 4
MaxLabelLen == 3

(* Program constants *)

CLIP_BEFORE_SEC == 15
CLIP_AFTER_SEC == 15
FRAME_SAMPLING_EVERY_SEC == 1

-----------------------------------------------------------------------------
(* Arithmetic helpers *)

Max(a, b) == IF a >= b THEN a ELSE b
Min(a, b) == IF a <= b THEN a ELSE b

\* Python round() of the non-negative rational n/d: nearest integer, ties to even.
PyRound(n, d) ==
    LET q == n \div d
        r == n % d
    IN  IF 2 * r < d THEN q
        ELSE IF 2 * r > d THEN q + 1
        ELSE IF q % 2 = 0 THEN q ELSE q + 1

-----------------------------------------------------------------------------
(* Timestamp helpers *)

Digits == {"0", "1", "2", "3", "4", "5", "6", "7", "8", "9"}
Whitespace == {" "}

DigitVal(c) ==
    CASE c = "0" -> 0 [] c = "1" -> 1 [] c = "2" -> 2 [] c = "3" -> 3
      [] c = "4" -> 4 [] c = "5" -> 5 [] c = "6" -> 6 [] c = "7" -> 7
      [] c = "8" -> 8 [] c = "9" -> 9

\* int() of a string of decimal digits
RECURSIVE PyInt(_)
PyInt(s) ==
    IF s = <<>> THEN 0
    ELSE PyInt(SubSeq(s, 1, Len(s) - 1)) * 10 + DigitVal(s[Len(s)])

\* str.strip()
RECURSIVE lstrip(_)
lstrip(s) ==
    IF s # <<>> /\ s[1] \in Whitespace THEN lstrip(Tail(s)) ELSE s

RECURSIVE rstrip(_)
rstrip(s) ==
    IF s # <<>> /\ s[Len(s)] \in Whitespace
    THEN rstrip(SubSeq(s, 1, Len(s) - 1)) ELSE s

strip(s) == rstrip(lstrip(s))

\* length of the run of digits of s that starts at position i (the greedy \d+)
RECURSIVE DigitRun(_, _)
DigitRun(s, i) ==
    IF i <= Len(s) /\ s[i] \in Digits THEN 1 + DigitRun(s, i + 1) ELSE 0

ValueError == [ok |-> FALSE, sec |-> 0]

\* the groups of r'(\d+)(?:\+(\d+))?:(\d+)' matched against all of t
FullMatch_AnySeconds[t \in Seq(STRING)] ==
    LET n1 == DigitRun(t, 1)
        p == n1 + 1
        hasAdd == p <= Len(t) /\ t[p] = "+"
        n2 == IF hasAdd THEN DigitRun(t, p + 1) ELSE 0
        q == IF hasAdd THEN p + 1 + n2 ELSE p
        matched == /\ n1 >= 1
                   /\ hasAdd => n2 >= 1
                   /\ q <= Len(t)
                   /\ t[q] = ":"
                   /\ DigitRun(t, q + 1) >= 1
                   /\ Len(t) = q + DigitRun(t, q + 1)
    IN  [matched |-> matched,
         g1 |-> IF matched THEN SubSeq(t, 1, n1) ELSE <<>>,
         g2 |-> IF matched /\ hasAdd THEN SubSeq(t, p + 1, p + n2) ELSE <<>>,
         g3 |-> IF matched THEN SubSeq(t, q + 1, Len(t)) ELSE <<>>]

\* re.fullmatch(r'(\d+)(?:\+(\d+))?:(\d{2})', t): whether it matches, and its
\* groups (an unmatched optional group is the empty string here)
FullMatch[t \in Seq(STRING)] ==
    LET n1 == DigitRun(t, 1)
        p == n1 + 1
        hasAdd == p <= Len(t) /\ t[p] = "+"
        n2 == IF hasAdd THEN DigitRun(t, p + 1) ELSE 0
        q == IF hasAdd THEN p + 1 + n2 ELSE p
        matched == /\ n1 >= 1
                   /\ hasAdd => n2 >= 1
                   /\ q <= Len(t)
                   /\ t[q] = ":"
                   /\ Len(t) = q + 2
                   /\ t[q + 1] \in Digits
                   /\ t[q + 2] \in Digits
    IN  [matched |-> matched,
         g1 |-> IF matched THEN SubSeq(t, 1, n1) ELSE <<>>,
         g2 |-> IF matched /\ hasAdd THEN SubSeq(t, p + 1, p + n2) ELSE <<>>,
         g3 |-> IF matched THEN SubSeq(t, q + 1, q + 2) ELSE <<>>]

\* what re.fullmatch returns: whether it matched, and the three groups
MatchObjects ==
    [matched : BOOLEAN, g1 : Seq(STRING), g2 : Seq(STRING), g3 : Seq(STRING)]

\* lines 27-32: the seconds of the match m, or ValueError
SecondsOfMatch[m \in MatchObjects] ==
    IF ~m.matched THEN ValueError
    ELSE [ok |-> TRUE,
          sec |-> (PyInt(m.g1) + (IF m.g2 # <<>> THEN PyInt(m.g2) ELSE 0)) * 60
                  + PyInt(m.g3)]

\* parse_time_stamp with the seconds group \d{2} widened to \d+
parse_time_stamp_AnySeconds(mm_ss) ==
    IF Len(mm_ss) = 0 THEN ValueError
    ELSE SecondsOfMatch[FullMatch_AnySeconds[strip(mm_ss)]]

\* parse_time_stamp with the added minutes of group 2 left out of the sum
parse_time_stamp_AddedDropped(mm_ss) ==
    IF Len(mm_ss) = 0 THEN ValueError
    ELSE SecondsOfMatch[[FullMatch[strip(mm_ss)] EXCEPT !.g2 = <<>>]]

\* parse_time_stamp, lines 23-32.  The result is the returned seconds, or
\* ValueError when the call raises.
parse_time_stamp(mm_ss) ==
    IF Len(mm_ss) = 0 THEN ValueError
    ELSE SecondsOfMatch[FullMatch[strip(mm_ss)]]

\* lines 36-38: the label f"{m:02d}-{s:06.3f}" of sec, kept as the pair it prints
LabelOfSeconds[sec \in Nat] ==
    LET m == sec \div 60
        s == sec - 60 * m
    IN  <<m, s>>

\* norm_ts_for_filename, lines 34-38
norm_ts_for_filename(ts) == LabelOfSeconds[parse_time_stamp(ts).sec]

-----------------------------------------------------------------------------
(* Window calculator and frame sampling selector *)

\* the window without the max(0.0, ...) clamp of its start
Window_NoLowerClamp(center_sec, before_sec, after_sec, total_frames, fpsQ) ==
    LET den == IF fpsQ > 0 THEN fpsQ ELSE 1
        duration_num == IF fpsQ > 0 THEN 4 * total_frames ELSE 0
        start_num == (center_sec - before_sec) * den
        end_num == Min(duration_num, (center_sec + after_sec) * den)
    IN  [den |-> den,
         duration_num |-> duration_num,
         start_num |-> start_num,
         end_num |-> end_num,
         start_f |-> PyRound(start_num * fpsQ, 4 * den),
         end_f |-> PyRound(end_num * fpsQ, 4 * den)]

\* write_clip_and_frames, lines 47-51.  Seconds are the rationals num/den with
\* den = fpsQ (1 when fps = 0); duration_sec = total_frames / fps, or 0.0.
Window(center_sec, before_sec, after_sec, total_frames, fpsQ) ==
    LET den == IF fpsQ > 0 THEN fpsQ ELSE 1
        duration_num == IF fpsQ > 0 THEN 4 * total_frames ELSE 0
        start_num == Max(0, (center_sec - before_sec) * den)
        end_num == Min(duration_num, (center_sec + after_sec) * den)
    IN  [den |-> den,
         duration_num |-> duration_num,
         start_num |-> start_num,
         end_num |-> end_num,
         start_f |-> PyRound(start_num * fpsQ, 4 * den),
         end_f |-> PyRound(end_num * fpsQ, 4 * den)]

\* save_idxs with indices relative to the window: round(i * fps)
SaveIdxs_Relative(win, before_sec, after_sec, fpsQ) ==
    { PyRound(i * FRAME_SAMPLING_EVERY_SEC * win.den * fpsQ, 4 * win.den) :
        i \in 0..((before_sec + after_sec) \div FRAME_SAMPLING_EVERY_SEC) }

\* save_idxs of soccerProjNewCode-1.py: i in range(0, int(after + before) + 1, 1)
SaveIdxs(win, before_sec, after_sec, fpsQ) ==
    { PyRound((win.start_num + i * FRAME_SAMPLING_EVERY_SEC * win.den) * fpsQ,
              4 * win.den) : i \in 0..((before_sec + after_sec) \div FRAME_SAMPLING_EVERY_SEC) }

\* save_idxs of extract_clips_frames_label.py:
\* t in range(0, int(round(end_sec - start_sec)) + 1, 1)
SaveIdxsLabel(win, fpsQ) ==
    { PyRound((win.start_num + t * FRAME_SAMPLING_EVERY_SEC * win.den) * fpsQ,
              4 * win.den) :
        t \in 0..(PyRound(win.end_num - win.start_num, win.den)
                    \div FRAME_SAMPLING_EVERY_SEC) }

\* f"{x:08.3f}" of the seconds num/den: the value in milliseconds it prints
Fmt3(num, den) == PyRound(num * 1000, den)

\* clip_name, line 56: clips_dir / f"clip_{tag}_{start_sec:08.3f}s_to_{end_sec:08.3f}s.mp4"
ClipName(tag, win) ==
    <<tag, Fmt3(win.start_num, win.den), Fmt3(win.end_num, win.den)>>

-----------------------------------------------------------------------------
(* Deduplication and sorting *)

\* lines 147-159: remove duplicates while preserving order
RECURSIVE DedupFrom(_, _)
DedupFrom(seq, seen) ==
    IF seq = <<>> THEN <<>>
    ELSE IF Head(seq) \in seen THEN DedupFrom(Tail(seq), seen)
         ELSE <<Head(seq)>> \o DedupFrom(Tail(seq), seen \cup {Head(seq)})

DedupTs(seq) == DedupFrom(seq, {})

\* lines 136-144: time stamps of the comments of one half, empty ones dropped
RECURSIVE TimestampsOfHalf(_, _)
TimestampsOfHalf(comments, half) ==
    IF comments = <<>> THEN <<>>
    ELSE LET c == Head(comments)
             rest == TimestampsOfHalf(Tail(comments), half)
         IN  IF c.time_stamp # <<>> /\ c.half = half
             THEN <<c.time_stamp>> \o rest ELSE rest

\* insertion that puts x before the elements of equal key: an unstable sort
RECURSIVE InsertByKey_BeforeEqual(_, _)
InsertByKey_BeforeEqual(x, sortedSeq) ==
    IF sortedSeq = <<>> THEN <<x>>
    ELSE IF parse_time_stamp(Head(sortedSeq)).sec < parse_time_stamp(x).sec
         THEN <<Head(sortedSeq)>> \o InsertByKey_BeforeEqual(x, Tail(sortedSeq))
         ELSE <<x>> \o sortedSeq

\* sorted(timestamps, key=parse_time_stamp): stable, ascending by key
RECURSIVE InsertByKey(_, _)
InsertByKey(x, sortedSeq) ==
    IF sortedSeq = <<>> THEN <<x>>
    ELSE IF parse_time_stamp(Head(sortedSeq)).sec <= parse_time_stamp(x).sec
         THEN <<Head(sortedSeq)>> \o InsertByKey(x, Tail(sortedSeq))
         ELSE <<x>> \o sortedSeq

RECURSIVE SortedByKey(_)
SortedByKey(seq) ==
    IF seq = <<>> THEN <<>>
    ELSE InsertByKey(seq[Len(seq)], SortedByKey(SubSeq(seq, 1, Len(seq) - 1)))

\* the key function raises on some element
SortRaises(seq) == \E i \in 1..Len(seq) : ~parse_time_stamp(seq[i]).ok

-----------------------------------------------------------------------------
(* Inputs of a batch run *)

TsBad == <<"a", "b", "c">>
Ts0005 == <<"0", ":", "0", "5">>
Ts0020 == <<"0", ":", "2", "0">>
Ts0p0020 == <<"0", "+", "0", ":", "2", "0">>

TsPool == {TsBad, Ts0005, Ts0020, Ts0p0020}

\* the records of a JSON file: every time stamp in the first half, two of them
\* in the second, one record without a time stamp and one of no half
CommentPool ==
    [time_stamp : TsPool, half : {1}]
        \cup [time_stamp : {TsBad, Ts0020}, half : {2}]
        \cup {[time_stamp |-> <<>>, half |-> 1], [time_stamp |-> Ts0005, half |-> 0]}

CommentLists == UNION { [1..n -> CommentPool] : n \in 0..MaxComments }

FolderPool == [json : {"missing", "corrupt", "ok"}, v1 : BOOLEAN, v2 : BOOLEAN]

\* what cv2.VideoCapture reports of a video file; fps = fpsQ / 4
VideoPool ==
    { [opened |-> FALSE, fpsQ |-> 0, total_frames |-> 0, readable |-> 0, seekable |-> FALSE],
      [opened |-> TRUE, fpsQ |-> 0, total_frames |-> 10, readable |-> 10, seekable |-> TRUE],
      [opened |-> TRUE, fpsQ |-> 1, total_frames |-> 9, readable |-> 9, seekable |-> TRUE],
      [opened |-> TRUE, fpsQ |-> 1, total_frames |-> 9, readable |-> 6, seekable |-> TRUE],
      [opened |-> TRUE, fpsQ |-> 2, total_frames |-> 5, readable |-> 5, seekable |-> FALSE],
      [opened |-> TRUE, fpsQ |-> 4, total_frames |-> 4, readable |-> 4, seekable |-> TRUE] }

NoCap == [opened |-> FALSE]
NoJob == [active |-> FALSE]

-----------------------------------------------------------------------------
(* Batch orchestrator *)

Init ==
    /\ nMatches \in 0..MaxMatches
    /\ mi = 0
    /\ pc = "main"
    /\ attempted = {} /\ invalid = {} /\ raised = {} /\ dirs = {}
    /\ halfStarted = {} /\ openCaps = {}
    /\ ts_half1_unique = <<>> /\ ts_half2_unique = <<>>
    /\ curHalf = 0 /\ halfList = <<>> /\ halfStatus = "none"
    /\ cap = NoCap
    /\ ts_sorted = <<>> /\ ei = 0 /\ job = NoJob /\ jobs = <<>>
    /\ fstage = "none" /\ fin = <<>> /\ fout = ValueError

\* the locals of process_match and process_half die when process_match is left
LeaveMatch ==
    /\ mi' = mi + 1
    /\ pc' = IF mi + 1 > nMatches THEN "summary" ELSE "match"
    /\ ts_half1_unique' = <<>> /\ ts_half2_unique' = <<>>
    /\ curHalf' = 0 /\ halfList' = <<>> /\ halfStatus' = "none"
    /\ cap' = NoCap
    /\ ts_sorted' = <<>> /\ ei' = 0 /\ job' = NoJob /\ jobs' = <<>>

\* lines 230-241
NoMatchFolders ==
    /\ pc = "main"
    /\ nMatches = 0
    /\ pc' = "exit1"
    /\ UNCHANGED <<nMatches, mi, attempted, invalid, raised, dirs, halfStarted,
                   openCaps, ts_half1_unique, ts_half2_unique, curHalf,
                   halfList, halfStatus, cap, ts_sorted, ei, job, jobs>>
    /\ UNCHANGED funVars

StartBatch ==
    /\ pc = "main"
    /\ nMatches > 0
    /\ mi' = 1
    /\ pc' = "match"
    /\ UNCHANGED <<nMatches, attempted, invalid, raised, dirs, halfStarted,
                   openCaps, ts_half1_unique, ts_half2_unique, curHalf,
                   halfList, halfStatus, cap, ts_sorted, ei, job, jobs>>
    /\ UNCHANGED funVars

\* lines 103-119 with only the JSON and the first-half video looked for
MatchResolved_NoSecondHalfCheck(folder) ==
    folder.json # "missing" /\ folder.v1

\* lines 103-119: a JSON file, a *_1.mkv and a *_2.mkv are all found
MatchResolved(folder) ==
    folder.json # "missing" /\ folder.v1 /\ folder.v2

\* process_match, lines 96-177, up to the first process_half call
ProcessMatchBegin ==
    /\ pc = "match"
    /\ attempted' = attempted \cup {mi}
    /\ \E folder \in FolderPool :
        /\ invalid' = IF folder.json = "missing" \/ ~folder.v1 \/ ~folder.v2
                       THEN invalid \cup {mi} ELSE invalid
        /\ IF ~MatchResolved(folder)
           THEN /\ LeaveMatch
                /\ UNCHANGED <<raised, dirs, halfStarted, openCaps>>
           ELSE IF folder.json = "corrupt"
           THEN \* json.load raises
                /\ pc' = "except"
                /\ UNCHANGED <<mi, raised, dirs, halfStarted,
                               openCaps, ts_half1_unique, ts_half2_unique, curHalf,
                               halfList, halfStatus, cap, ts_sorted, ei, job, jobs>>
           ELSE \E comments \in CommentLists :
                /\ ts_half1_unique' = DedupTs(TimestampsOfHalf(comments, 1))
                /\ ts_half2_unique' = DedupTs(TimestampsOfHalf(comments, 2))
                /\ dirs' = dirs \cup {mi}
                /\ pc' = "first_half"
                /\ UNCHANGED <<mi, raised, halfStarted, openCaps,
                               curHalf, halfList, halfStatus, cap, ts_sorted, ei,
                               job, jobs>>
    /\ UNCHANGED nMatches
    /\ UNCHANGED funVars

\* lines 180-187 and process_half, lines 194-210
ProcessHalfBegin ==
    /\ pc \in {"first_half", "second_half"}
    /\ LET h == IF pc = "first_half" THEN 1 ELSE 2
           timestamps == IF h = 1 THEN ts_half1_unique ELSE ts_half2_unique
           after == IF h = 1 THEN "second_half" ELSE "match_end"
       IN  IF timestamps = <<>>
           THEN /\ pc' = after
                /\ UNCHANGED <<halfStarted, openCaps, curHalf, halfList,
                               halfStatus, cap, ts_sorted, ei, jobs>>
           ELSE /\ curHalf' = h
                /\ halfList' = timestamps
                /\ halfStarted' = halfStarted \cup {mi}
                /\ jobs' = <<>>
                /\ \E video \in VideoPool :
                    IF ~video.opened
                    THEN /\ halfStatus' = "open_failed"
                         /\ pc' = after
                         /\ cap' = NoCap
                         /\ ts_sorted' = <<>> /\ ei' = 0
                         /\ UNCHANGED openCaps
                    ELSE /\ cap' = [opened |-> TRUE, fpsQ |-> video.fpsQ,
                                    total_frames |-> video.total_frames,
                                    readable |-> video.readable,
                                    seekable |-> video.seekable, pos |-> 0]
                         /\ openCaps' = openCaps \cup {<<mi, h>>}
                         /\ IF SortRaises(timestamps)
                            THEN /\ halfStatus' = "aborted"
                                 /\ pc' = "except"
                                 /\ ts_sorted' = <<>> /\ ei' = 0
                            ELSE /\ halfStatus' = "running"
                                 /\ pc' = "events"
                                 /\ ts_sorted' = SortedByKey(timestamps)
                                 /\ ei' = 1
    /\ UNCHANGED <<nMatches, mi, attempted, invalid, raised, dirs,
                   ts_half1_unique, ts_half2_unique, job>>
    /\ UNCHANGED funVars

\* the range test with an empty range let through
ValidRange_AllowEmpty(win) == win.end_f >= win.start_f

\* lines 52-54: write_clip_and_frames goes on only past `end_f <= start_f`
ValidRange(win) == win.end_f > win.start_f

\* the for loop of process_half, lines 212-223, and write_clip_and_frames up to
\* its read loop, lines 47-70.  (The locals are bound with \E over singletons.)
NextEvent ==
    /\ pc = "events"
    /\ IF ei > Len(ts_sorted)
       THEN \* cap.release()
            /\ openCaps' = openCaps \ {<<mi, curHalf>>}
            /\ halfStatus' = "released"
            /\ cap' = NoCap
            /\ pc' = IF curHalf = 1 THEN "second_half" ELSE "match_end"
            /\ UNCHANGED <<ei, job, jobs>>
       ELSE \E ts \in {ts_sorted[ei]} :
            \E center \in {parse_time_stamp(ts)} :
            IF ~center.ok
            THEN /\ jobs' = Append(jobs, [ts |-> ts, outcome |-> "bad_timestamp"])
                 /\ ei' = ei + 1
                 /\ UNCHANGED <<pc, openCaps, halfStatus, cap, job>>
            ELSE \E tag \in {norm_ts_for_filename(ts)} :
                 \E win \in {Window(center.sec, CLIP_BEFORE_SEC, CLIP_AFTER_SEC,
                                    cap.total_frames, cap.fpsQ)} :
                 IF ~ValidRange(win)
                 THEN /\ jobs' = Append(jobs, [ts |-> ts, outcome |-> "no_valid_range",
                                               tag |-> tag, win |-> win])
                      /\ ei' = ei + 1
                      /\ UNCHANGED <<pc, openCaps, halfStatus, cap, job>>
                 ELSE \E sinkOpened \in BOOLEAN :
                      IF ~sinkOpened
                      THEN /\ jobs' = Append(jobs, [ts |-> ts, outcome |-> "no_writer",
                                                    tag |-> tag, win |-> win,
                                                    clip |-> ClipName(tag, win)])
                           /\ ei' = ei + 1
                           /\ UNCHANGED <<pc, openCaps, halfStatus, cap, job>>
                      ELSE /\ job' = [active |-> TRUE, ts |-> ts, tag |-> tag,
                                      win |-> win, clip |-> ClipName(tag, win),
                                      save_idxs |-> SaveIdxs(win, CLIP_BEFORE_SEC,
                                                             CLIP_AFTER_SEC, cap.fpsQ),
                                      wrote |-> 0, idx |-> win.start_f,
                                      reads |-> 0, failed |-> FALSE,
                                      written |-> <<>>, saved |-> {}]
                           /\ cap' = [cap EXCEPT !.pos = IF cap.seekable
                                                         THEN win.start_f ELSE @]
                           /\ pc' = "scan"
                           /\ UNCHANGED <<openCaps, halfStatus, ei, jobs>>
    /\ UNCHANGED <<nMatches, mi, attempted, invalid, raised, dirs, halfStarted,
                   ts_half1_unique, ts_half2_unique, curHalf, halfList, ts_sorted>>
    /\ UNCHANGED funVars

\* one pass of the read loop with wrote counted before the read is checked
ReadLoopBody_CountBeforeCheck(j, c) ==
    IF c.pos >= c.readable
    THEN [j EXCEPT !.reads = @ + 1, !.failed = TRUE, !.wrote = @ + 1]
    ELSE [j EXCEPT !.reads = @ + 1,
                   !.written = Append(@, c.pos),
                   !.saved = IF j.idx \in j.save_idxs
                             THEN @ \cup {[idx |-> j.idx, frame |-> c.pos]} ELSE @,
                   !.wrote = @ + 1,
                   !.idx = @ + 1]

\* one pass of the read loop with the still-image test made after idx += 1
ReadLoopBody_StillAfterIncrement(j, c) ==
    IF c.pos >= c.readable
    THEN [j EXCEPT !.reads = @ + 1, !.failed = TRUE]
    ELSE [j EXCEPT !.reads = @ + 1,
                   !.written = Append(@, c.pos),
                   !.saved = IF j.idx + 1 \in j.save_idxs
                             THEN @ \cup {[idx |-> j.idx + 1, frame |-> c.pos]} ELSE @,
                   !.wrote = @ + 1,
                   !.idx = @ + 1]

\* one pass of the read loop, lines 73-88: the job's locals after it;
\* cap.read() fails when the source has no frame at its position
ReadLoopBody(j, c) ==
    IF c.pos >= c.readable
    THEN [j EXCEPT !.reads = @ + 1, !.failed = TRUE]
    ELSE [j EXCEPT !.reads = @ + 1,
                   !.written = Append(@, c.pos),
                   !.saved = IF j.idx \in j.save_idxs
                             THEN @ \cup {[idx |-> j.idx, frame |-> c.pos]} ELSE @,
                   !.wrote = @ + 1,
                   !.idx = @ + 1]

\* the read loop of write_clip_and_frames, lines 72-91, one pass at a time
ScanStep ==
    /\ pc = "scan"
    /\ LET j == IF job.idx < job.win.end_f THEN ReadLoopBody(job, cap) ELSE job
           leave == job.idx >= job.win.end_f \/ j.failed
       IN  IF leave
           THEN \* vout.release() and the report line
                /\ jobs' = Append(jobs, [ts |-> j.ts, outcome |-> "wrote",
                                         tag |-> j.tag, win |-> j.win,
                                         clip |-> j.clip, save_idxs |-> j.save_idxs,
                                         wrote |-> j.wrote, written |-> j.written,
                                         saved |-> j.saved, reads |-> j.reads,
                                         failed |-> j.failed])
                /\ job' = NoJob
                /\ ei' = ei + 1
                /\ pc' = "events"
                /\ UNCHANGED cap
           ELSE /\ job' = j
                /\ cap' = [cap EXCEPT !.pos = @ + 1]
                /\ UNCHANGED <<jobs, ei, pc>>
    /\ UNCHANGED <<nMatches, mi, attempted, invalid, raised, dirs, halfStarted,
                   openCaps, ts_half1_unique, ts_half2_unique, curHalf,
                   halfList, halfStatus, ts_sorted>>
    /\ UNCHANGED funVars

\* line 189 and the return to the main loop
CompleteMatch ==
    /\ pc = "match_end"
    /\ LeaveMatch
    /\ UNCHANGED <<nMatches, attempted, invalid, raised, dirs, halfStarted,
                   openCaps>>
    /\ UNCHANGED funVars

\* the main loop without its try/except: the exception ends the program
CatchAtMatchBoundary_Propagate ==
    /\ pc = "except"
    /\ pc' = "traceback"
    /\ UNCHANGED <<nMatches, mi, attempted, invalid, raised, dirs, halfStarted,
                   openCaps, ts_half1_unique, ts_half2_unique, curHalf,
                   halfList, halfStatus, cap, ts_sorted, ei, job, jobs>>
    /\ UNCHANGED funVars

\* lines 247-251.  A source left open by the unwound process_half is released
\* only if the interpreter finalizes the unreachable capture object.
CatchAtMatchBoundary ==
    /\ pc = "except"
    /\ raised' = raised \cup {mi}
    /\ openCaps' \in {openCaps, openCaps \ {<<mi, curHalf>>}}
    /\ LeaveMatch
    /\ UNCHANGED <<nMatches, attempted, invalid, dirs, halfStarted>>
    /\ UNCHANGED funVars

\* lines 253-256
PrintSummary ==
    /\ pc = "summary"
    /\ pc' = "done"
    /\ UNCHANGED <<nMatches, mi, attempted, invalid, raised, dirs, halfStarted,
                   openCaps, ts_half1_unique, ts_half2_unique, curHalf,
                   halfList, halfStatus, cap, ts_sorted, ei, job, jobs>>
    /\ UNCHANGED funVars

Next ==
    \/ NoMatchFolders
    \/ StartBatch
    \/ ProcessMatchBegin
    \/ ProcessHalfBegin
    \/ NextEvent
    \/ ScanStep
    \/ CompleteMatch
    \/ CatchAtMatchBoundary
    \/ PrintSummary

Spec == Init /\ [][Next]_vars

\* one thread of control that always takes its next step
FairSpec == Spec /\ WF_vars(Next)

-----------------------------------------------------------------------------
(* Timestamp parser runs *)

Alphabet == {"1", "9", "+", ":", " ", "a"}

ExtraTs == { <<"a", "b", "c">>,
             <<"6", "1", ":", "9", "9">>,
             <<"6", "1", ":", "9", "9", "9">>,
             <<"4", "5", "+", "2", ":", "1", "0">>,
             <<"4", "7", ":", "1", "0">>,
             <<"9", "+", "1", ":", "1", "9">>,
             <<"1", "+", "1", "9", ":", "1", "1">>,
             <<" ", "4", "7", ":", "1", "0", " ">> }

TsStrings == UNION { [1..n -> Alphabet] : n \in 0..MaxTsLen } \cup ExtraTs

BatchIdle ==
    /\ nMatches = 0 /\ mi = 0 /\ pc = "idle"
    /\ attempted = {} /\ invalid = {} /\ raised = {} /\ dirs = {}
    /\ halfStarted = {} /\ openCaps = {}
    /\ ts_half1_unique = <<>> /\ ts_half2_unique = <<>>
    /\ curHalf = 0 /\ halfList = <<>> /\ halfStatus = "none"
    /\ cap = [opened |-> FALSE]
    /\ ts_sorted = <<>> /\ ei = 0 /\ job = [active |-> FALSE] /\ jobs = <<>>

InitParse ==
    /\ BatchIdle
    /\ fstage = "input"
    /\ fin \in TsStrings
    /\ fout = ValueError

CallParse ==
    /\ fstage = "input"
    /\ fstage' = "parsed"
    /\ fout' = parse_time_stamp(fin)
    /\ UNCHANGED fin
    /\ UNCHANGED batchVars

NextParse == CallParse

SpecParse == InitParse /\ [][NextParse]_vars

-----------------------------------------------------------------------------
(* Window calculator and sampling selector runs *)

InitWindow ==
    /\ BatchIdle
    /\ fstage = "input"
    /\ fin \in [center_sec : 0..MaxCenter, total_frames : 0..MaxFrames, fpsQ : 0..MaxFpsQ]
    /\ fout = [win |-> Window(0, 0, 0, 0, 0), save_main |-> {}, save_label |-> {}]

\* write_clip_and_frames, lines 47-54
CallWindow ==
    /\ fstage = "input"
    /\ fstage' = "window"
    /\ fout' = [fout EXCEPT !.win = Window(fin.center_sec, CLIP_BEFORE_SEC,
                                           CLIP_AFTER_SEC, fin.total_frames, fin.fpsQ)]
    /\ UNCHANGED fin
    /\ UNCHANGED batchVars

\* save_idxs, reached only past the `end_f <= start_f` return
CallSaveIdxs ==
    /\ fstage = "window"
    /\ fout.win.end_f > fout.win.start_f
    /\ fstage' = "sampled"
    /\ fout' = [fout EXCEPT
                  !.save_main = SaveIdxs(fout.win, CLIP_BEFORE_SEC, CLIP_AFTER_SEC, fin.fpsQ),
                  !.save_label = SaveIdxsLabel(fout.win, fin.fpsQ)]
    /\ UNCHANGED fin
    /\ UNCHANGED batchVars

NextWindow == CallWindow \/ CallSaveIdxs

SpecWindow == InitWindow /\ [][NextWindow]_vars

-----------------------------------------------------------------------------
(* Deduplication runs of the single-video scripts *)

\* extract_clips_frames_label.py, lines 46-58: key (half, ts, event)
RECURSIVE DedupLabelFrom(_, _)
DedupLabelFrom(comments, seen) ==
    IF comments = <<>> THEN <<>>
    ELSE LET c == Head(comments)
             key == <<c.half, c.time_stamp, c.comments_type>>
         IN  IF c.time_stamp = <<>> \/ key \in seen
             THEN DedupLabelFrom(Tail(comments), seen)
             ELSE <<<<c.time_stamp, c.comments_type, c.half>>>>
                    \o DedupLabelFrom(Tail(comments), seen \cup {key})

DedupLabel(comments) == DedupLabelFrom(comments, {})

\* newExtractFrames.py, lines 67-76: key ts alone
RECURSIVE DedupNewExtractFrom(_, _)
DedupNewExtractFrom(comments, seen) ==
    IF comments = <<>> THEN <<>>
    ELSE LET c == Head(comments)
         IN  IF c.time_stamp # <<>> /\ c.time_stamp \notin seen
             THEN <<<<c.time_stamp, c.comments_type>>>>
                    \o DedupNewExtractFrom(Tail(comments), seen \cup {c.time_stamp})
             ELSE DedupNewExtractFrom(Tail(comments), seen)

DedupNewExtract(comments) == DedupNewExtractFrom(comments, {})

Ts1000 == <<"1", "0", ":", "0", "0">>
Ts1001 == <<"1", "0", ":", "0", "1">>

RecordPool ==
    [time_stamp : {<<>>, Ts1000, Ts1001}, comments_type : {"goal", "card"}, half : {1, 2}]

InitDedup ==
    /\ BatchIdle
    /\ fstage = "input"
    /\ fin \in UNION { [1..n -> RecordPool] : n \in 0..MaxRecords }
    /\ fout = [label |-> <<>>, newExtract |-> <<>>]

CallDedupLabel ==
    /\ fstage = "input"
    /\ fstage' = "label"
    /\ fout' = [fout EXCEPT !.label = DedupLabel(fin)]
    /\ UNCHANGED fin
    /\ UNCHANGED batchVars

CallDedupNewExtract ==
    /\ fstage = "label"
    /\ fstage' = "both"
    /\ fout' = [fout EXCEPT !.newExtract = DedupNewExtract(fin)]
    /\ UNCHANGED fin
    /\ UNCHANGED batchVars

NextDedup == CallDedupLabel \/ CallDedupNewExtract

SpecDedup == InitDedup /\ [][NextDedup]_vars

-----------------------------------------------------------------------------
(* Category routing of the single-video scripts *)

\* str.lower() on the characters the labels are made of
LowerChar(c) == IF c = "G" THEN "g" ELSE c

lower(s) == [i \in 1..Len(s) |-> LowerChar(s[i])]

\* s.replace("&", "and")
RECURSIVE ReplaceAmp(_)
ReplaceAmp(s) ==
    IF s = <<>> THEN <<>>
    ELSE IF Head(s) = "&" THEN <<"a", "n", "d">> \o ReplaceAmp(Tail(s))
         ELSE <<Head(s)>> \o ReplaceAmp(Tail(s))

\* re.sub(pattern+, repl, s) for a pattern that is a class of characters:
\* every maximal run of characters of the class becomes repl
RECURSIVE SubRuns(_, _, _)
SubRuns(class, repl, s) ==
    IF s = <<>> THEN <<>>
    ELSE IF Head(s) \in class
         THEN IF Len(s) > 1 /\ s[2] \in class
              THEN SubRuns(class, repl, Tail(s))
              ELSE repl \o SubRuns(class, repl, Tail(s))
         ELSE <<Head(s)>> \o SubRuns(class, repl, Tail(s))

LabelAlphabet == {"G", "o", "&", " ", "!", ".", "-"}

\* [a-z0-9_\-] and [A-Za-z0-9._-] within the characters that can occur
SafeLower ==
    {"a", "b", "c", "d", "e", "f", "g", "h", "i", "j", "k", "l", "m", "n", "o",
     "p", "q", "r", "s", "t", "u", "v", "w", "x", "y", "z"} \cup Digits \cup {"_", "-"}

SafeMixed == SafeLower \cup {"G", "U", "."}

AllChars == LabelAlphabet \cup SafeMixed

unknown == <<"u", "n", "k", "n", "o", "w", "n">>
Unknown == <<"U", "n", "k", "n", "o", "w", "n">>

\* extract_clips_frames_label.py, lines 33-38
sanitize_event_name(s) ==
    LET s0 == lower(strip(IF s = <<>> THEN unknown ELSE s))
        s1 == ReplaceAmp(s0)
        s2 == SubRuns(Whitespace, <<"_">>, s1)
        s3 == SubRuns(AllChars \ SafeLower, <<>>, s2)
    IN  IF s3 = <<>> THEN unknown ELSE s3

\* newExtractFrames.py, line 47: the directory name `safe`
get_output_dirs(comment_type) ==
    LET safe == SubRuns(AllChars \ SafeMixed, <<"_">>, strip(comment_type))
    IN  IF safe = <<>> THEN Unknown ELSE safe

Labels == UNION { [1..n -> LabelAlphabet] : n \in 0..MaxLabelLen }

\* a record of the JSON file: with a comments_type, or without one
InitRouter ==
    /\ BatchIdle
    /\ fstage = "input"
    /\ fin \in [present : {TRUE}, label : Labels] \cup {[present |-> FALSE, label |-> <<>>]}
    /\ fout = [event_dir |-> <<>>, again |-> <<>>, safe |-> <<>>]

\* extract_clips_frames_label.py, lines 52 and 82
CallSanitize ==
    /\ fstage = "input"
    /\ fstage' = "sanitized"
    /\ fout' = [fout EXCEPT !.event_dir =
                  sanitize_event_name(IF fin.present THEN fin.label ELSE unknown)]
    /\ UNCHANGED fin
    /\ UNCHANGED batchVars

\* sanitize_event_name called on a name it returned
CallSanitizeAgain ==
    /\ fstage = "sanitized"
    /\ fstage' = "resanitized"
    /\ fout' = [fout EXCEPT !.again = sanitize_event_name(fout.event_dir)]
    /\ UNCHANGED fin
    /\ UNCHANGED batchVars

\* newExtractFrames.py, lines 72 and 179
CallGetOutputDirs ==
    /\ fstage = "resanitized"
    /\ fstage' = "routed"
    /\ fout' = [fout EXCEPT !.safe =
                  get_output_dirs(IF fin.present THEN fin.label ELSE Unknown)]
    /\ UNCHANGED fin
    /\ UNCHANGED batchVars

NextRouter == CallSanitize \/ CallSanitizeAgain \/ CallGetOutputDirs

SpecRouter == InitRouter /\ [][NextRouter]_vars

-----------------------------------------------------------------------------
(* A run is either a batch run or one call of the timestamp parser *)

InitParserAndBatch == Init \/ InitParse

NextParserAndBatch == Next \/ NextParse

SpecParserAndBatch == InitParserAndBatch /\ [][NextParserAndBatch]_vars

-----------------------------------------------------------------------------
(* Properties *)

HasClip(j) == j.outcome \in {"no_writer", "wrote"}
Ran(j) == j.outcome \in {"no_valid_range", "no_writer", "wrote"}
HalfEnded == halfStatus \in {"aborted", "released"}

\* C1: when a half's event list holds a malformed time stamp, that record is
\* logged and skipped and every well-formed event of the half still has its
\* extraction job run.
C1_BadRecordNeverAbortsHalf ==
    HalfEnded =>
        \A i \in 1..Len(halfList) :
            \E k \in 1..Len(jobs) :
                /\ jobs[k].ts = halfList[i]
                /\ IF parse_time_stamp(halfList[i]).ok
                   THEN Ran(jobs[k]) ELSE jobs[k].outcome = "bad_timestamp"

\* C2: whatever exception a match raises, every discovered match folder is
\* eventually attempted and the batch reaches its final summary.
C2_EveryMatchAttempted ==
    (nMatches > 0) ~> (pc = "done" /\ attempted = 1..nMatches)

\* an exception was caught for one match and a later match was still attempted
C2_Witness ==
    /\ pc = "done"
    /\ \E m \in raised : \E later \in attempted : later > m

\* C3: a match folder that lacks a JSON file or either half video gets no
\* output directory and no Half Processor run, so no job ever writes a clip or
\* a frame for it; it raises nothing, and the batch goes on to its end.
C3_InvalidMatchSkipped ==
    /\ \A m \in invalid :
        /\ m \in attempted
        /\ m \notin dirs
        /\ m \notin halfStarted
        /\ m \notin raised
        /\ m < mi
    /\ (job.active \/ jobs # <<>>) => (mi \in halfStarted /\ mi \in dirs)
    /\ pc \in {"match", "summary", "done"} => attempted = 1..(mi - 1)
    /\ pc = "done" => attempted = 1..nMatches

\* an invalid match was skipped and a later match folder had a clip written
C3_Witness ==
    /\ \E m \in invalid : m < mi
    /\ \E k \in 1..Len(jobs) : jobs[k].outcome = "wrote" /\ jobs[k].wrote > 0

\* C4: at most one video source is open at any time, and none is open when
\* the next half or the next match begins, nor at the end of the batch.
C4_SourcesReleased ==
    /\ Cardinality(openCaps) <= 1
    /\ pc \in {"match", "first_half", "second_half", "match_end", "summary", "done"}
         => openCaps = {}

\* C5: two jobs of one half for different events (different raw time stamps)
\* never resolve to the same clip path.
C5_ClipPathsDistinct ==
    \A i, k \in 1..Len(jobs) :
        (i # k /\ HasClip(jobs[i]) /\ HasClip(jobs[k]) /\ jobs[i].ts # jobs[k].ts)
            => jobs[i].clip # jobs[k].clip

\* C9: a job's frame-write count never exceeds end_frame - start_frame, equals
\* it when every read succeeds, is the number of reads before the failing one
\* when a read fails, and the half goes on with the next event.
C9_WriteCount ==
    /\ \A k \in 1..Len(jobs) :
        jobs[k].outcome = "wrote" =>
            LET j == jobs[k]
                n == j.win.end_f - j.win.start_f
            IN  /\ j.wrote <= n
                /\ j.wrote = Len(j.written)
                /\ ~j.failed => (j.wrote = n /\ j.reads = n)
                /\ j.failed => j.wrote = j.reads - 1
    /\ job.active => job.wrote <= job.win.end_f - job.win.start_f
    /\ pc = "events" => Len(jobs) = ei - 1
    /\ halfStatus = "released" => Len(jobs) = Len(ts_sorted)

\* a read failed in the middle of one job and the half ran the next job
C9_Witness ==
    /\ Len(jobs) >= 2
    /\ jobs[1].outcome = "wrote" /\ jobs[1].failed /\ jobs[1].wrote >= 1
    /\ jobs[2].outcome = "wrote"

\* the keys (half, raw_timestamp, category) of the records that have a time stamp
DistinctKeys(comments) ==
    { <<comments[i].half, comments[i].time_stamp, comments[i].comments_type>> :
        i \in { n \in 1..Len(comments) : comments[n].time_stamp # <<>> } }

\* position of the first record of comments that has the key
FirstSeen(comments, key) ==
    CHOOSE i \in 1..Len(comments) :
        /\ <<comments[i].half, comments[i].time_stamp, comments[i].comments_type>> = key
        /\ \A n \in 1..(i - 1) :
            <<comments[n].half, comments[n].time_stamp, comments[n].comments_type>> # key

\* C6: deduplication keeps exactly one record per key (half, raw_timestamp,
\* category), so records that differ only in category both survive, in
\* first-seen order; this is stated of both scripts that route by category.
C6_DedupByFullKey ==
    fstage = "both" =>
        /\ Len(fout.label) = Cardinality(DistinctKeys(fin))
        /\ \A a, b \in 1..Len(fout.label) :
            a < b => FirstSeen(fin, <<fout.label[a][3], fout.label[a][1], fout.label[a][2]>>)
                      < FirstSeen(fin, <<fout.label[b][3], fout.label[b][1], fout.label[b][2]>>)
        /\ Len(fout.newExtract) = Cardinality(DistinctKeys(fin))

\* C7 as stated: every window has 0 <= start_sec <= end_sec <= duration_sec.
C7_WindowOrdered ==
    fstage # "input" =>
        LET w == fout.win
        IN  /\ 0 <= w.start_num
            /\ w.start_num <= w.end_num
            /\ w.end_num <= w.duration_num

\* C7 as amended: 0 <= start_sec and end_sec <= duration_sec, the two clamps
\* are as stated, the frame bounds are the nearest integers to sec * fps (ties
\* to even), start_sec <= end_sec exactly when event_seconds - before_sec is no
\* later than the end of the video, and a window whose job is not skipped has
\* start_sec < end_sec.
C7_WindowClamped ==
    fstage # "input" =>
        LET w == fout.win
            lo == (fin.center_sec - CLIP_BEFORE_SEC) * w.den
            hi == (fin.center_sec + CLIP_AFTER_SEC) * w.den
        IN  /\ 0 <= w.start_num /\ lo <= w.start_num
            /\ w.start_num \in {0, lo}
            /\ w.end_num <= w.duration_num /\ w.end_num <= hi
            /\ w.end_num \in {w.duration_num, hi}
            /\ fin.fpsQ > 0 => w.duration_num * fin.fpsQ = 4 * fin.total_frames * w.den
            /\ fin.fpsQ = 0 => w.duration_num = 0
            /\ \A f \in {<<w.start_f, w.start_num>>, <<w.end_f, w.end_num>>} :
                LET d == 4 * w.den * f[1] - f[2] * fin.fpsQ
                IN  /\ -2 * w.den <= d /\ d <= 2 * w.den
                    /\ (d = 2 * w.den \/ d = -2 * w.den) => f[1] % 2 = 0
            /\ (w.start_num <= w.end_num) <=> (lo <= w.duration_num)
            /\ w.end_f > w.start_f => w.start_num < w.end_num

\* the window of an event that lies more than before_sec beyond the end of a
\* video that has frames: clamped at its end only, with start_sec > end_sec
C7_Witness ==
    /\ fstage = "window"
    /\ fin.fpsQ > 0 /\ fin.total_frames > 0
    /\ (fin.center_sec - CLIP_BEFORE_SEC) * fout.win.den > fout.win.duration_num
    /\ fout.win.end_num = fout.win.duration_num
    /\ fout.win.start_num > fout.win.end_num

\* C8 as stated: every index of the SampleSet lies in [start_frame, end_frame).
C8_SamplesInsideWindow ==
    fstage = "sampled" =>
        \A i \in fout.save_main \cup fout.save_label :
            fout.win.start_f <= i /\ i < fout.win.end_f

\* C8 as amended: every index of the SampleSet is >= start_frame, start_frame
\* is one of them, and the set is not confined to the window: the set of
\* soccerProjNewCode-1.py always holds an index >= end_frame.
C8_SamplesFromStart ==
    fstage = "sampled" =>
        /\ \A i \in fout.save_main \cup fout.save_label : fout.win.start_f <= i
        /\ fout.win.start_f \in fout.save_main
        /\ fout.win.start_f \in fout.save_label
        /\ \E i \in fout.save_main : i >= fout.win.end_f

\* the sample set of an unclamped window that starts after frame 0
C8_Witness ==
    /\ fstage = "sampled"
    /\ fout.win.start_num = (fin.center_sec - CLIP_BEFORE_SEC) * fout.win.den
    /\ fout.win.end_num = (fin.center_sec + CLIP_AFTER_SEC) * fout.win.den
    /\ fout.win.start_f > 0
    /\ Cardinality(fout.save_main) > 2

\* <minutes>[+<added-minutes>]:<two-digit seconds>, stated over the characters
AllDigits(s) == \A i \in 1..Len(s) : s[i] \in Digits

MatchesPattern(t) ==
    /\ Len(t) >= 4
    /\ t[Len(t) - 2] = ":"
    /\ t[Len(t) - 1] \in Digits /\ t[Len(t)] \in Digits
    /\ LET head == SubSeq(t, 1, Len(t) - 3)
       IN  \/ AllDigits(head)
           \/ \E k \in 2..(Len(head) - 1) :
                /\ head[k] = "+"
                /\ AllDigits(SubSeq(head, 1, k - 1))
                /\ AllDigits(SubSeq(head, k + 1, Len(head)))

Ts6199 == <<"6", "1", ":", "9", "9">>
Ts61999 == <<"6", "1", ":", "9", "9", "9">>

\* C10 as stated: the parser rejects the empty string and every string that
\* does not match the pattern, "abc" and "61:99" among them, and no job is run
\* for a rejected record.
C10_RejectsAsStated ==
    /\ fstage = "parsed" =>
        /\ ~MatchesPattern(fin) => ~fout.ok
        /\ fin \in {TsBad, Ts6199} => ~fout.ok
    /\ \A k \in 1..Len(jobs) : Ran(jobs[k]) => parse_time_stamp(jobs[k].ts).ok

\* C10 as amended: the parser rejects the empty string and exactly the strings
\* that, stripped of surrounding whitespace, do not match the pattern; "abc"
\* and "61:999" are rejected while "61:99" has two-digit seconds and parses to
\* 3759; no job is run, and no clip or frame is written, for a rejected record.
C10_RejectsUnmatched ==
    /\ fstage = "parsed" =>
        /\ fout.ok <=> MatchesPattern(strip(fin))
        /\ fin \in {<<>>, TsBad, Ts61999} => ~fout.ok
        /\ fin = Ts6199 => fout = [ok |-> TRUE, sec |-> 3759]
    /\ \A k \in 1..Len(jobs) : Ran(jobs[k]) => MatchesPattern(strip(jobs[k].ts))
    /\ job.active => MatchesPattern(strip(job.ts))

\* the parser was called on "61:999" and rejected it
C10_Witness ==
    fstage = "parsed" /\ fin = Ts61999 /\ ~fout.ok

\* the number a string of decimal digits denotes, by the weight of each place
DecValue(s) ==
    LET S[i \in 0..Len(s)] ==
            IF i = 0 THEN 0 ELSE S[i - 1] + DigitVal(s[i]) * 10 ^ (Len(s) - i)
    IN  S[Len(s)]

\* the fields of a string t that matches the pattern
MinutesField(t) ==
    LET head == SubSeq(t, 1, Len(t) - 3)
    IN  IF \E k \in 1..Len(head) : head[k] = "+"
        THEN SubSeq(head, 1, (CHOOSE k \in 1..Len(head) : head[k] = "+") - 1)
        ELSE head

AddedField(t) ==
    LET head == SubSeq(t, 1, Len(t) - 3)
    IN  IF \E k \in 1..Len(head) : head[k] = "+"
        THEN SubSeq(head, (CHOOSE k \in 1..Len(head) : head[k] = "+") + 1, Len(head))
        ELSE <<>>

SecondsField(t) == SubSeq(t, Len(t) - 1, Len(t))

Ts45p210 == <<"4", "5", "+", "2", ":", "1", "0">>
Ts4710 == <<"4", "7", ":", "1", "0">>

\* C11: for every string that matches <minutes>[+<added-minutes>]:<SS> the
\* parser returns (minutes + added_minutes) * 60 + seconds, absent added
\* minutes counting 0; parse("45+2:10") = 2830 and parse("47:10") = 2830.
C11_ParsedSeconds ==
    fstage = "parsed" =>
        /\ MatchesPattern(fin) =>
              /\ fout.ok
              /\ fout.sec = (DecValue(MinutesField(fin)) + DecValue(AddedField(fin))) * 60
                              + DecValue(SecondsField(fin))
        /\ fin \in {Ts45p210, Ts4710} => fout = [ok |-> TRUE, sec |-> 2830]

\* the parser was called on "45+2:10" and returned 2830
C11_Witness ==
    fstage = "parsed" /\ fin = Ts45p210 /\ fout.ok /\ fout.sec = 2830

\* where the time stamp ts stands in the deduplicated list of the half
FirstSeenAt(ts) == CHOOSE i \in 1..Len(halfList) : halfList[i] = ts

\* C12: within one half the jobs run in ascending order of parsed seconds, and
\* jobs of equal parsed seconds run in the first-seen order of their events.
C12_JobsInStableOrder ==
    \A i, k \in 1..Len(jobs) :
        i < k =>
            LET a == parse_time_stamp(jobs[i].ts).sec
                b == parse_time_stamp(jobs[k].ts).sec
            IN  /\ a <= b
                /\ a = b => FirstSeenAt(jobs[i].ts) < FirstSeenAt(jobs[k].ts)

\* a half whose list holds "0:20" before "0+0:20", both 20 seconds, was released
\* after running the job of "0:20" right before that of "0+0:20"
C12_Witness ==
    /\ halfStatus = "released"
    /\ Len(jobs) >= 2
    /\ \E i, k \in 1..Len(halfList) :
         /\ i < k
         /\ halfList[i] = Ts0020 /\ halfList[k] = Ts0p0020
    /\ \E n \in 1..(Len(jobs) - 1) :
         jobs[n].ts = Ts0020 /\ jobs[n + 1].ts = Ts0p0020

Skipped(j) == j.outcome \in {"no_valid_range", "no_writer"}

\* C13: a job whose window has end_frame <= start_frame is skipped, and the
\* step that skips a job, for that or for a clip sink that does not open,
\* raises nothing, leaves the source where it was (no seek, no read), starts no
\* writing, leaves every earlier job's clip and stills as they were, and moves
\* the half on to its next event.
C13_SkippedJobNoEffect ==
    [][ Len(jobs') = Len(jobs) + 1 =>
          LET j == jobs'[Len(jobs')]
          IN  /\ (Ran(j) /\ j.win.end_f <= j.win.start_f)
                    => j.outcome = "no_valid_range"
              /\ Skipped(j) =>
                    /\ cap' = cap
                    /\ job = NoJob /\ job' = NoJob
                    /\ SubSeq(jobs', 1, Len(jobs)) = jobs
                    /\ pc = "events" /\ pc' = "events"
                    /\ ei' = ei + 1
                    /\ halfStatus' = "running"
                    /\ raised' = raised
                    /\ openCaps' = openCaps ]_vars

\* the first job of a half was skipped for its clip sink and the half was
\* released after its second job wrote frames
C13_Witness ==
    /\ halfStatus = "released"
    /\ Len(jobs) = 2
    /\ jobs[1].outcome = "no_writer"
    /\ jobs[2].outcome = "wrote" /\ jobs[2].wrote > 0

\* a directory name of the router: not empty, made of [a-z0-9_-] only
SafeName(name) ==
    name # <<>> /\ \A i \in 1..Len(name) : name[i] \in SafeLower

\* C14: the Category Router of both scripts maps every raw category label to
\* a non-empty directory name over [a-z0-9_-]; a missing or empty label, or an
\* empty result, gives "unknown"; sanitizing a sanitized name returns it.
C14_RouterNamesSanitized ==
    /\ fstage \in {"sanitized", "resanitized", "routed"} =>
          /\ SafeName(fout.event_dir)
          /\ (~fin.present \/ fin.label = <<>>) => fout.event_dir = unknown
    /\ fstage \in {"resanitized", "routed"} => fout.again = fout.event_dir
    /\ fstage = "routed" =>
          /\ SafeName(fout.safe)
          /\ (~fin.present \/ fin.label = <<>>) => fout.safe = unknown

\* the stills of a job (running or reported) are frames its clip also holds:
\* each has an index of the SampleSet within [start_frame, start_frame + wrote)
\* and is the frame appended to the clip in the iteration of that index
StillsAreClipFrames(j) ==
    /\ j.wrote = Len(j.written)
    /\ \A s \in j.saved :
        /\ s.idx \in j.save_idxs
        /\ j.win.start_f <= s.idx /\ s.idx < j.win.start_f + j.wrote
        /\ j.written[s.idx - j.win.start_f + 1] = s.frame

\* C15: throughout the scan loop idx = start_frame + wrote and, when the seek
\* to start_frame succeeded, the read position of the source equals idx; every
\* still image is a frame appended to the clip in the same iteration, its index
\* is in the SampleSet and in [start_frame, start_frame + final write count).
C15_ScanLoopInvariant ==
    /\ job.active =>
          /\ job.idx = job.win.start_f + job.wrote
          /\ cap.seekable => cap.pos = job.idx
          /\ StillsAreClipFrames(job)
          /\ cap.seekable => \A s \in job.saved : s.frame = s.idx
    /\ \A k \in 1..Len(jobs) :
          jobs[k].outcome = "wrote" =>
              /\ StillsAreClipFrames(jobs[k])
              /\ cap.opened /\ cap.seekable =>
                    \A s \in jobs[k].saved : s.frame = s.idx

\* in the middle of the scan of a window that starts after frame 0, on a source
\* that was sought there, with two frames written and two stills saved
C15_Witness ==
    /\ pc = "scan" /\ job.active
    /\ cap.seekable
    /\ job.win.start_f > 0
    /\ job.wrote >= 2
    /\ Cardinality(job.saved) >= 2

====
